---- MODULE Spec2Model ----
(***************************************************************************)
(* State-machine model of APlayerCharacter (PlayerCharacter.cpp) and of    *)
(* the UTransporter component (Transporter.h).                             *)
(*                                                                         *)
(* Every handler of the character is one action.  The body of a handler is *)
(* a pure operator from the state it reads (and its arguments) to a record *)
(* holding the state it writes, its return value and the calls it makes to *)
(* the engine (broadcasts, Heal, Montage_Play, ...); the action applies    *)
(* the operator and records the call in lastCall.                          *)
(***************************************************************************)
EXTENDS Integers, Sequences, FiniteSets, TLC

\* ---------------------------------------------------------------- bounds
\* largest ItemCount passed to AddInventoryItem (besides MAX_int32)
MaxAdd == 3
\* largest RemoveCount passed to RemoveInventoryItem
MaxRemove == 2
\* the exploration stops adding to an entry above this count
MaxStored == 4

\* points of the transporter lie on one axis, at 0, 2, .., 2 * MaxPoint
MaxPoint == 2

\* the exploration stops interrupting montages when more than this many
\* interrupted montages are still blending out
MaxPending == 1

\* ------------------------------------------------------------- constants
MAX_int32 == 2147483647

NULL == "nullptr"

\* UItem objects and their MaxCount property (UItem is declared outside
\* this file; MaxCount <= 0 is read by AddInventoryItem as "no cap").
Items == {"Vinegar", "Bandage", "Key"}
ItemMaxCount == [i \in Items |->
                    CASE i = "Vinegar" -> 2
                      [] i = "Bandage" -> 0
                      [] i = "Key"     -> -1]
ItemRefs == Items \cup {NULL}

\* MaxHp of the character (set by the base class / blueprint)
MaxHpValues == {100, 200}

AddCounts == (-1 .. MaxAdd) \cup {MAX_int32}
RemoveCounts == -1 .. MaxRemove

\* length of the GunCameraZoomCurve of GunCameraZoomTimeline and the frame
\* times DeltaSeconds of Tick, in units of one shortest frame
TimelineLength == 1
DeltaSecondsValues == 1 .. TimelineLength

\* actors a sphere trace can hit: AEnemyCharacter objects and other actors
Enemies == {"Enemy1", "Enemy2"}
OtherActors == {"Crate"}
NoHit == [IsHit |-> FALSE, Actor |-> NULL]
TraceResults ==
    {NoHit} \cup {[IsHit |-> TRUE, Actor |-> a] : a \in Enemies \cup OtherActors \cup {NULL}}

\* animation montages of the character (UAnimMontage assets).  The assets
\* of the FistAttackMontages array are project content: one whose asset name
\* contains "Combo" and one whose name does not.
DodgeMontages == {"DodgeRollForwardMontage", "DodgeRollRightMontage",
                  "DodgeRollLeftMontage", "DodgeRollBackwardMontage"}
FistAttackMontages == {"FistAttackCombo", "FistAttackJab"}
Montages == DodgeMontages \cup FistAttackMontages
                \cup {"ExecutePunchAttackMontage", "BlockMontage"}
NoMontage == "None"

AnimationStates == {"Unarmed", "Pistol", "Rifle"}
AxisValues == {-1, 0, 1}
MovementVectors == [X : AxisValues, Y : AxisValues]
NotifyNames == {"ComboContinue", "Execute", "BeginPush", "FootStep"}

VARIABLES
    InventoryData,      \* TMap<UItem*, int32>: a function on the held items
    CurrentSlotItem,    \* UItem* used by UseSlotItem
    MaxHp,
    player,             \* the movement and combat fields of the character
                        \* and the state of the engine objects it drives
    lastCall,           \* the last handler call: arguments, result, effects
    transporter,        \* the UTransporter component and its owner's location
    observed            \* history of the calls: the last zoom broadcast, and
                        \* the ComboContinue notifies that went by without a
                        \* Montage_Stop since the last buffered attack input

vars == <<InventoryData, CurrentSlotItem, MaxHp, player, lastCall, observed,
          transporter>>

invVars == <<InventoryData, CurrentSlotItem, MaxHp, transporter>>

NoCall == [op |-> "None", item |-> NULL, n |-> 0, ret |-> FALSE, prev |-> 0,
           events |-> <<>>, heals |-> <<>>,
           arg |-> "", env |-> {}, trace |-> NoHit,
           played |-> <<>>, stopped |-> FALSE, buffered |-> FALSE,
           undefined |-> FALSE]

NoneObserved == [LastZoomBroadcast |-> "None", ComboPassed |-> 0]

\* ------------------------------------------------------- engine helpers
\* FMath::Clamp(X, Min, Max): (X < Min) ? Min : (X < Max) ? X : Max.  With
\* Max < Min (RemoveInventoryItem on an item whose MaxCount is negative) the
\* result is Min or Max, both <= 0 there.
Clamp(X, Min, Max) == IF X < Min THEN Min ELSE IF X < Max THEN X ELSE Max

\* int32 addition as the build computes it, wrapping to two's complement
\* on overflow (a >= 0 in every use)
AddInt32(a, b) ==
    IF b > 0 /\ a > MAX_int32 - b
    THEN (a - MAX_int32 - 1) + (b - MAX_int32 - 1)
    ELSE a + b

\* TMap::Add on a key that is not present / operator[] assignment
MapAdd(inv, k, v) == [x \in (DOMAIN inv) \cup {k} |-> IF x = k THEN v ELSE inv[x]]
MapRemove(inv, k) == [x \in (DOMAIN inv) \ {k} |-> inv[x]]

\* ------------------------------------------------------------ inventory
GetInventoryItemCount(inv, Item) ==
    IF Item \in DOMAIN inv THEN inv[Item] ELSE 0

HasItem(inv, Item) == Item \in DOMAIN inv

\* AddInventoryItem with the ItemCount validation done after the insertion
AddInventoryItem_LateCheck(inv, NewItem, ItemCount) ==
    IF NewItem = NULL
    THEN [inv |-> inv, ret |-> FALSE, events |-> <<>>]
    ELSE LET MaxCount == IF ItemMaxCount[NewItem] <= 0 THEN MAX_int32
                         ELSE ItemMaxCount[NewItem]
             after ==
                 IF NewItem \in DOMAIN inv
                 THEN [inv |-> [inv EXCEPT ![NewItem] =
                                  Clamp(AddInt32(inv[NewItem], ItemCount), 1, MaxCount)],
                       events |-> <<>>]
                 ELSE [inv |-> MapAdd(inv, NewItem, ItemCount),
                       events |-> << <<"OnPlayerAddItem", NewItem>> >>]
         IN  [inv |-> after.inv, ret |-> ItemCount > 0, events |-> after.events]

\* AddInventoryItem broadcasting OnPlayerAddItem on every successful add
AddInventoryItem_AlwaysBroadcast(inv, NewItem, ItemCount) ==
    IF NewItem = NULL
    THEN [inv |-> inv, ret |-> FALSE, events |-> <<>>]
    ELSE IF ItemCount <= 0
    THEN [inv |-> inv, ret |-> FALSE, events |-> <<>>]
    ELSE LET MaxCount == IF ItemMaxCount[NewItem] <= 0 THEN MAX_int32
                         ELSE ItemMaxCount[NewItem]
         IN  [inv |-> IF NewItem \in DOMAIN inv
                      THEN [inv EXCEPT ![NewItem] =
                              Clamp(AddInt32(inv[NewItem], ItemCount), 1, MaxCount)]
                      ELSE MapAdd(inv, NewItem, ItemCount),
              ret |-> TRUE,
              events |-> << <<"OnPlayerAddItem", NewItem>> >>]

AddInventoryItem(inv, NewItem, ItemCount) ==
    IF NewItem = NULL
    THEN [inv |-> inv, ret |-> FALSE, events |-> <<>>]
    ELSE IF ItemCount <= 0
    THEN [inv |-> inv, ret |-> FALSE, events |-> <<>>]
    ELSE LET MaxCount == IF ItemMaxCount[NewItem] <= 0 THEN MAX_int32
                         ELSE ItemMaxCount[NewItem]
         IN  IF NewItem \in DOMAIN inv
             THEN LET OldItemCount == inv[NewItem]
                  IN [inv |-> [inv EXCEPT ![NewItem] =
                                  Clamp(AddInt32(OldItemCount, ItemCount), 1, MaxCount)],
                      ret |-> TRUE, events |-> <<>>]
             ELSE [inv |-> MapAdd(inv, NewItem, ItemCount),
                   ret |-> TRUE,
                   events |-> << <<"OnPlayerAddItem", NewItem>> >>]

\* RemoveInventoryItem keeping the entry when the new count is 0 (>= for >)
RemoveInventoryItem_KeepZero(inv, RemovedItem, RemoveCount) ==
    IF RemovedItem = NULL
    THEN [inv |-> inv, ret |-> FALSE]
    ELSE IF GetInventoryItemCount(inv, RemovedItem) <= 0
    THEN [inv |-> inv, ret |-> FALSE]
    ELSE LET ItemCount ==
                 IF RemoveCount <= 0 THEN 0
                 ELSE Clamp(GetInventoryItemCount(inv, RemovedItem) - RemoveCount,
                            0, ItemMaxCount[RemovedItem])
         IN  IF ItemCount >= 0
             THEN [inv |-> [inv EXCEPT ![RemovedItem] = ItemCount], ret |-> TRUE]
             ELSE [inv |-> MapRemove(inv, RemovedItem), ret |-> TRUE]

\* RemoveInventoryItem deleting all only for RemoveCount < 0 (< for <=)
RemoveInventoryItem_ZeroRemovesNone(inv, RemovedItem, RemoveCount) ==
    IF RemovedItem = NULL
    THEN [inv |-> inv, ret |-> FALSE]
    ELSE IF GetInventoryItemCount(inv, RemovedItem) <= 0
    THEN [inv |-> inv, ret |-> FALSE]
    ELSE LET ItemCount ==
                 IF RemoveCount < 0 THEN 0
                 ELSE Clamp(GetInventoryItemCount(inv, RemovedItem) - RemoveCount,
                            0, ItemMaxCount[RemovedItem])
         IN  IF ItemCount > 0
             THEN [inv |-> [inv EXCEPT ![RemovedItem] = ItemCount], ret |-> TRUE]
             ELSE [inv |-> MapRemove(inv, RemovedItem), ret |-> TRUE]

RemoveInventoryItem(inv, RemovedItem, RemoveCount) ==
    IF RemovedItem = NULL
    THEN [inv |-> inv, ret |-> FALSE]
    ELSE IF GetInventoryItemCount(inv, RemovedItem) <= 0
    THEN [inv |-> inv, ret |-> FALSE]
    ELSE LET ItemCount ==
                 IF RemoveCount <= 0 THEN 0
                 ELSE Clamp(GetInventoryItemCount(inv, RemovedItem) - RemoveCount,
                            0, ItemMaxCount[RemovedItem])
         IN  IF ItemCount > 0
             THEN [inv |-> [inv EXCEPT ![RemovedItem] = ItemCount], ret |-> TRUE]
             ELSE [inv |-> MapRemove(inv, RemovedItem), ret |-> TRUE]

\* UseItem with Heal and the broadcast outside the success test
UseItem_AlwaysHeal(inv, Item, maxHp) ==
    LET r == RemoveInventoryItem(inv, Item, 1)
    IN  [inv |-> r.inv, ret |-> r.ret,
         events |-> << <<"OnPlayerUseItem">> >>,
         heals |-> << maxHp \div 2 >>]

UseItem(inv, Item, maxHp) ==
    IF GetInventoryItemCount(inv, Item) <= 0
    THEN [inv |-> inv, ret |-> FALSE, events |-> <<>>, heals |-> <<>>]
    ELSE LET r == RemoveInventoryItem(inv, Item, 1)
         IN  IF r.ret
             THEN [inv |-> r.inv, ret |-> TRUE,
                   events |-> << <<"OnPlayerUseItem">> >>,
                   heals |-> << maxHp \div 2 >>]
             ELSE [inv |-> r.inv, ret |-> FALSE, events |-> <<>>, heals |-> <<>>]

UseSlotItem(inv, slot, maxHp) == UseItem(inv, slot, maxHp)

\* the exploration keeps stored counts small (or at MAX_int32)
CountInBounds(inv) ==
    \A i \in DOMAIN inv : inv[i] <= MaxStored \/ inv[i] = MAX_int32

\* --------------------------------------------------------------- actions
DoAddInventoryItem ==
    \E NewItem \in ItemRefs, ItemCount \in AddCounts :
        LET r == AddInventoryItem(InventoryData, NewItem, ItemCount)
        IN  /\ CountInBounds(r.inv)
            /\ InventoryData' = r.inv
            /\ lastCall' = [NoCall EXCEPT !.op = "AddInventoryItem",
                              !.item = NewItem, !.n = ItemCount, !.ret = r.ret,
                              !.prev = GetInventoryItemCount(InventoryData, NewItem),
                              !.events = r.events]
            /\ UNCHANGED <<CurrentSlotItem, MaxHp, player, observed, transporter>>

DoRemoveInventoryItem ==
    \E RemovedItem \in ItemRefs, RemoveCount \in RemoveCounts :
        LET r == RemoveInventoryItem(InventoryData, RemovedItem, RemoveCount)
        IN  /\ InventoryData' = r.inv
            /\ lastCall' = [NoCall EXCEPT !.op = "RemoveInventoryItem",
                              !.item = RemovedItem, !.n = RemoveCount, !.ret = r.ret,
                              !.prev = GetInventoryItemCount(InventoryData, RemovedItem)]
            /\ UNCHANGED <<CurrentSlotItem, MaxHp, player, observed, transporter>>

DoUseItem ==
    \E Item \in ItemRefs :
        LET r == UseItem(InventoryData, Item, MaxHp)
        IN  /\ InventoryData' = r.inv
            /\ lastCall' = [NoCall EXCEPT !.op = "UseItem",
                              !.item = Item, !.n = 1, !.ret = r.ret,
                              !.prev = GetInventoryItemCount(InventoryData, Item),
                              !.events = r.events, !.heals = r.heals]
            /\ UNCHANGED <<CurrentSlotItem, MaxHp, player, observed, transporter>>

DoUseSlotItem ==
    LET r == UseSlotItem(InventoryData, CurrentSlotItem, MaxHp)
    IN  /\ InventoryData' = r.inv
        /\ lastCall' = [NoCall EXCEPT !.op = "UseSlotItem",
                          !.item = CurrentSlotItem, !.n = 1, !.ret = r.ret,
                          !.prev = GetInventoryItemCount(InventoryData, CurrentSlotItem),
                          !.events = r.events, !.heals = r.heals]
        /\ UNCHANGED <<CurrentSlotItem, MaxHp, player, observed, transporter>>

\* the component before SetPoints, its owner at Location
InitTransporter(Location, ConfiguredMoveTime) ==
    [ StartPoint    |-> 0,
      EndPoint      |-> 0,
      ArePointsSet  |-> FALSE,
      MoveTime      |-> ConfiguredMoveTime,
      IsTriggered   |-> FALSE,
      Speed         |-> 0,
      OwnerLocation |-> Location ]

\* the character after its constructor and BeginPlay
InitPlayer ==
    [ CurrentAnimationState      |-> "Unarmed",
      bOrientRotationToMovement  |-> TRUE,
      bUseControllerRotationYaw  |-> FALSE,
      CrosshairVisible           |-> FALSE,
      IsTargetLocking            |-> FALSE,
      LockTargetEnemy            |-> NULL,
      TargetWidgetVisible        |-> [e \in Enemies |-> FALSE],
      CurrentMovementVector      |-> [X |-> 0, Y |-> 0],
      IsGunZooming               |-> FALSE,
      GunCameraZoomTimeline      |-> "Stopped",
      GunCameraZoomPosition      |-> 0,
      IsMeleeAttackInputReceived |-> FALSE,
      ExecutingTarget            |-> NULL,
      IsSprinting                |-> FALSE,
      IsCrouching                |-> FALSE,
      MaxWalkSpeed               |-> "WalkSpeed",
      playing                    |-> NoMontage,
      endedPending               |-> {},
      Crashed                    |-> FALSE ]

Init ==
    /\ InventoryData = [x \in {} |-> 0]
    /\ CurrentSlotItem \in ItemRefs
    /\ MaxHp \in MaxHpValues
    /\ player = InitPlayer
    /\ lastCall = NoCall
    /\ observed = NoneObserved
    /\ transporter = InitTransporter(0, 1)

\* the same with one slot item and one MaxHp, for the handlers that read neither
Init0 ==
    /\ InventoryData = [x \in {} |-> 0]
    /\ CurrentSlotItem = NULL
    /\ MaxHp = 100
    /\ player = InitPlayer
    /\ lastCall = NoCall
    /\ observed = NoneObserved
    /\ transporter = InitTransporter(0, 1)

Next ==
    \/ DoAddInventoryItem
    \/ DoRemoveInventoryItem
    \/ DoUseItem
    \/ DoUseSlotItem

Spec == Init /\ [][Next]_vars

\* ------------------------------------------------------------------------
\* Movement and combat handlers.  A handler maps a call context x (the
\* character state x.s and the engine calls made so far in this call) to the
\* context at its return.  env is the set of the base-class predicates
\* (ABaseCharacter, not part of this file) that return true during the call.
Ctx(s) == [s |-> s, played |-> <<>>, events |-> <<>>, stopped |-> FALSE,
           buffered |-> FALSE, undefined |-> FALSE]

\* a member access through a null pointer: the behaviour of the call is
\* undefined from here on
NullDeref(x) == [x EXCEPT !.undefined = TRUE]

\* what a call can leave behind: the state at its return, or, when its
\* behaviour was undefined, also the crash of the process
Outcomes(x) ==
    IF x.undefined THEN {x.s, [x.s EXCEPT !.Crashed = TRUE]} ELSE {x.s}

\* UAnimInstance::Montage_Play: the montage that was playing is interrupted
\* and its OnMontageEnded is delivered later
Montage_Play(x, m) ==
    [x EXCEPT !.s.playing = m,
              !.s.endedPending = @ \cup ({x.s.playing} \ {NoMontage}),
              !.played = Append(@, m)]

\* UAnimInstance::Montage_Stop(0.35f)
Montage_Stop(x) ==
    [x EXCEPT !.s.playing = NoMontage,
              !.s.endedPending = @ \cup ({x.s.playing} \ {NoMontage}),
              !.stopped = TRUE]

Broadcast(x, e) == [x EXCEPT !.events = Append(@, e)]

\* Cast<AEnemyCharacter>(OutHit.GetActor())
CastEnemy(a) == IF a \in Enemies THEN a ELSE NULL

ShowTargetWidget(x, e) == [x EXCEPT !.s.TargetWidgetVisible[e] = TRUE]
HideTargetWidget(x, e) == [x EXCEPT !.s.TargetWidgetVisible[e] = FALSE]

Move(x, env, Value) ==
    IF "CanMove" \notin env THEN x
    ELSE [x EXCEPT !.s.CurrentMovementVector = Value]

SetAnimationState(x, NewAnimationState) ==
    LET x1 == [x EXCEPT !.s.CurrentAnimationState = NewAnimationState]
    IN  IF NewAnimationState = "Unarmed"
        THEN [x1 EXCEPT !.s.bOrientRotationToMovement = TRUE,
                        !.s.bUseControllerRotationYaw = FALSE,
                        !.s.CrosshairVisible = FALSE]
        ELSE [x1 EXCEPT !.s.bOrientRotationToMovement = FALSE,
                        !.s.bUseControllerRotationYaw = TRUE,
                        !.s.CrosshairVisible = TRUE]

UnlockTarget(x) ==
    LET x1 == [x EXCEPT !.s.IsTargetLocking = FALSE]
        x2 == IF x.s.LockTargetEnemy = NULL
              THEN NullDeref(x1)
              ELSE HideTargetWidget(x1, x.s.LockTargetEnemy)
    IN  [x2 EXCEPT !.s.bOrientRotationToMovement = TRUE,
                   !.s.bUseControllerRotationYaw = FALSE]

\* TryTargetLock locking on whatever actor the trace hit (no enemy test)
TryTargetLock_AnyActor(x, trace) ==
    IF x.s.CurrentAnimationState # "Unarmed" THEN x
    ELSE IF x.s.IsTargetLocking THEN UnlockTarget(x)
    ELSE IF trace.IsHit
         THEN [x EXCEPT !.s.LockTargetEnemy = CastEnemy(trace.Actor),
                        !.s.bOrientRotationToMovement = FALSE,
                        !.s.bUseControllerRotationYaw = TRUE,
                        !.s.IsTargetLocking = TRUE]
         ELSE x

\* trace is the result of SearchEnemyInFront
TryTargetLock(x, trace) ==
    IF x.s.CurrentAnimationState # "Unarmed" THEN x
    ELSE IF x.s.IsTargetLocking THEN UnlockTarget(x)
    ELSE IF trace.IsHit
         THEN LET x1 == [x EXCEPT !.s.LockTargetEnemy = CastEnemy(trace.Actor)]
              IN  IF x1.s.LockTargetEnemy # NULL
                  THEN [ShowTargetWidget(x1, x1.s.LockTargetEnemy) EXCEPT
                            !.s.bOrientRotationToMovement = FALSE,
                            !.s.bUseControllerRotationYaw = TRUE,
                            !.s.IsTargetLocking = TRUE]
                  ELSE x1
         ELSE x

\* FTimeline::TickTimeline of the non-looping GunCameraZoomTimeline: a
\* playing timeline moves by DeltaSeconds in its direction and stops when
\* it passes its end
TickTimeline(x, DeltaSeconds) ==
    LET Position == x.s.GunCameraZoomPosition
    IN  IF x.s.GunCameraZoomTimeline = "Forward"
        THEN IF Position + DeltaSeconds > TimelineLength
             THEN [x EXCEPT !.s.GunCameraZoomPosition = TimelineLength,
                            !.s.GunCameraZoomTimeline = "Stopped"]
             ELSE [x EXCEPT !.s.GunCameraZoomPosition = Position + DeltaSeconds]
        ELSE IF x.s.GunCameraZoomTimeline = "Reverse"
        THEN IF Position - DeltaSeconds < 0
             THEN [x EXCEPT !.s.GunCameraZoomPosition = 0,
                            !.s.GunCameraZoomTimeline = "Stopped"]
             ELSE [x EXCEPT !.s.GunCameraZoomPosition = Position - DeltaSeconds]
        ELSE x

\* Tick: env tells whether the locked enemy IsExecutable and IsDead.  The
\* control rotation and the camera boom that the timeline drives are
\* continuous quantities that no handler below reads; they are not kept.
Tick(x, env, DeltaSeconds) ==
    LET e == x.s.LockTargetEnemy
        x3 == IF ~x.s.IsTargetLocking THEN x
              ELSE IF e = NULL
              THEN NullDeref(x)
              ELSE LET visible == x.s.TargetWidgetVisible[e]
                       x1 == IF "IsExecutable" \in env /\ visible
                             THEN HideTargetWidget(x, e) ELSE x
                       x2 == IF /\ "IsExecutable" \notin env
                                /\ ~x1.s.TargetWidgetVisible[e]
                             THEN ShowTargetWidget(x1, e) ELSE x1
                   IN  IF "IsDead" \in env THEN UnlockTarget(x2) ELSE x2
    IN  TickTimeline(x3, DeltaSeconds)

\* TryDodgeRoll testing the Y axis before the X axis
TryDodgeRoll_YFirst(x, env) ==
    IF "CanDodgeRoll" \notin env THEN x
    ELSE IF "IsDodging" \in env THEN x
    ELSE IF ~x.s.IsTargetLocking /\ x.s.CurrentAnimationState = "Unarmed"
    THEN Montage_Play(x, "DodgeRollForwardMontage")
    ELSE IF x.s.CurrentMovementVector.Y < 0
    THEN Montage_Play(x, "DodgeRollBackwardMontage")
    ELSE IF x.s.CurrentMovementVector.X > 0
    THEN Montage_Play(x, "DodgeRollRightMontage")
    ELSE IF x.s.CurrentMovementVector.X < 0
    THEN Montage_Play(x, "DodgeRollLeftMontage")
    ELSE Montage_Play(x, "DodgeRollForwardMontage")

TryDodgeRoll(x, env) ==
    IF "CanDodgeRoll" \notin env THEN x
    ELSE IF "IsDodging" \in env THEN x
    ELSE IF ~x.s.IsTargetLocking /\ x.s.CurrentAnimationState = "Unarmed"
    THEN Montage_Play(x, "DodgeRollForwardMontage")
    ELSE IF x.s.CurrentMovementVector.X > 0
    THEN Montage_Play(x, "DodgeRollRightMontage")
    ELSE IF x.s.CurrentMovementVector.X < 0
    THEN Montage_Play(x, "DodgeRollLeftMontage")
    ELSE IF x.s.CurrentMovementVector.Y < 0
    THEN Montage_Play(x, "DodgeRollBackwardMontage")
    ELSE Montage_Play(x, "DodgeRollForwardMontage")

\* Montage->GetName().Contains("Combo")
NameContainsCombo(m) == m = "FistAttackCombo"

OnMontageEnded(x, Montage) ==
    IF NameContainsCombo(Montage)
    THEN [x EXCEPT !.s.IsMeleeAttackInputReceived = FALSE]
    ELSE x

IsZoomBroadcast(e) == e[1] \in {"OnGunZoomIn", "OnGunZoomOut"}
ZoomBroadcasts(events) == SelectSeq(events, IsZoomBroadcast)

Observe(op, x, arg) ==
    [ LastZoomBroadcast |->
          IF ZoomBroadcasts(x.events) = <<>> THEN observed.LastZoomBroadcast
          ELSE ZoomBroadcasts(x.events)[Len(ZoomBroadcasts(x.events))][1],
      ComboPassed |->
          IF x.buffered THEN 0
          ELSE IF op = "OnPlayMontageNotifyBegin" /\ arg = "ComboContinue"
                    /\ ~x.stopped
               THEN observed.ComboPassed + 1
               ELSE observed.ComboPassed ]

\* the call of a handler: the new character state and the record of the call
Called(op, x, arg, env, trace) ==
    /\ ~player.Crashed
    /\ Cardinality(x.s.endedPending) <= MaxPending
    /\ player' \in Outcomes(x)
    /\ lastCall' = [NoCall EXCEPT !.op = op, !.arg = arg, !.env = env,
                      !.trace = trace, !.played = x.played,
                      !.events = x.events, !.stopped = x.stopped,
                      !.buffered = x.buffered,
                      !.undefined = x.undefined]
    /\ observed' = Observe(op, x, arg)
    /\ UNCHANGED invVars

DoMove ==
    \E env \in SUBSET {"CanMove"}, Value \in MovementVectors :
        Called("Move", Move(Ctx(player), env, Value), "", env, NoHit)

DoSetAnimationState ==
    \E NewAnimationState \in AnimationStates :
        Called("SetAnimationState",
               SetAnimationState(Ctx(player), NewAnimationState),
               NewAnimationState, {}, NoHit)

DoTryTargetLock ==
    \E trace \in TraceResults :
        Called("TryTargetLock", TryTargetLock(Ctx(player), trace), "", {}, trace)

\* the predicates Tick can consult in the state s
TickEnv(s) ==
    IF s.IsTargetLocking THEN SUBSET {"IsExecutable", "IsDead"} ELSE {{}}

DoTick ==
    \E env \in TickEnv(player), DeltaSeconds \in DeltaSecondsValues :
        Called("Tick", Tick(Ctx(player), env, DeltaSeconds), "", env, NoHit)

DoTryDodgeRoll ==
    \E env \in SUBSET {"CanDodgeRoll", "IsDodging"} :
        Called("TryDodgeRoll", TryDodgeRoll(Ctx(player), env), "", env, NoHit)

\* the engine ends a montage: the playing one at its end, or an interrupted
\* one when its blend-out is over; it then calls OnMontageEnded
DoOnMontageEnded ==
    \E Montage \in Montages, bInterrupted \in BOOLEAN :
        /\ IF bInterrupted THEN Montage \in player.endedPending
                           ELSE Montage = player.playing
        /\ LET s1 == IF bInterrupted
                     THEN [player EXCEPT !.endedPending = @ \ {Montage}]
                     ELSE [player EXCEPT !.playing = NoMontage]
           IN  Called("OnMontageEnded", OnMontageEnded(Ctx(s1), Montage),
                      Montage, {}, NoHit)

NextLockDodge ==
    \/ DoMove
    \/ DoSetAnimationState
    \/ DoTryTargetLock
    \/ DoTick
    \/ DoTryDodgeRoll
    \/ DoOnMontageEnded

SpecLockDodge == Init0 /\ [][NextLockDodge]_vars

\* ------------------------------------------------------------------------
\* Attack, guard and camera-zoom handlers.

CanAttack(x, env) == "Super::CanAttack" \in env /\ ~x.s.IsSprinting
CanPunch(x, env) == "Super::CanPunch" \in env /\ ~x.s.IsCrouching
CanFire(x, env) ==
    IF x.s.IsCrouching
    THEN "Super::CanFire" \in env /\ "IsMoving" \notin env
    ELSE "Super::CanFire" \in env
CanGuard(x, env) == "Super::CanGuard" \in env /\ ~x.s.IsCrouching

\* trace is the result of SearchEnemyInFront; env tells whether the enemy in
\* front is in attack range and IsExecutable and what the base class's
\* IsPlayingFistAttackMontage() returns; RandomFistAttackMontage is the
\* element of FistAttackMontages that FMath::RandRange picks
TryFistAttack(x, env, trace, RandomFistAttackMontage) ==
    IF FistAttackMontages = {} THEN x
    ELSE IF /\ trace.IsHit
            /\ CastEnemy(trace.Actor) # NULL
            /\ "IsInAttackRange" \in env
            /\ "IsExecutable" \in env
    THEN Montage_Play([x EXCEPT !.s.ExecutingTarget = CastEnemy(trace.Actor)],
                      "ExecutePunchAttackMontage")
    ELSE IF "IsPlayingFistAttackMontage" \notin env
    THEN Montage_Play(x, RandomFistAttackMontage)
    ELSE [x EXCEPT !.s.IsMeleeAttackInputReceived = TRUE, !.buffered = TRUE]

TryAttack(x, env, trace, RandomFistAttackMontage) ==
    IF ~CanAttack(x, env) THEN x
    ELSE IF x.s.CurrentAnimationState = "Unarmed"
    THEN IF CanPunch(x, env)
         THEN TryFistAttack(x, env, trace, RandomFistAttackMontage)
         ELSE x
    ELSE IF CanFire(x, env)
         THEN Broadcast(Broadcast(x, <<"OnPlayerFire">>),
                        <<"WeaponSystemComponent->TryFire">>)
         ELSE x

\* the notify handler leaving the buffered input in place
OnPlayMontageNotifyBegin_KeepBuffer(x, NotifyName) ==
    LET x1 == IF ~x.s.IsMeleeAttackInputReceived /\ NotifyName = "ComboContinue"
              THEN Montage_Stop(x) ELSE x
        x3 == IF NotifyName = "Execute"
              THEN IF x1.s.ExecutingTarget = NULL THEN NullDeref(x1)
                   ELSE Broadcast(x1, <<"ApplyDamage", x1.s.ExecutingTarget>>)
              ELSE x1
    IN  IF NotifyName = "BeginPush" THEN Broadcast(x3, <<"OnBeginPush">>) ELSE x3

OnPlayMontageNotifyBegin(x, NotifyName) ==
    LET x1 == IF ~x.s.IsMeleeAttackInputReceived /\ NotifyName = "ComboContinue"
              THEN Montage_Stop(x) ELSE x
        x2 == IF NotifyName = "ComboContinue"
              THEN [x1 EXCEPT !.s.IsMeleeAttackInputReceived = FALSE] ELSE x1
        x3 == IF NotifyName = "Execute"
              THEN IF x2.s.ExecutingTarget = NULL THEN NullDeref(x2)
                   ELSE Broadcast(x2, <<"ApplyDamage", x2.s.ExecutingTarget>>)
              ELSE x2
    IN  IF NotifyName = "BeginPush" THEN Broadcast(x3, <<"OnBeginPush">>) ELSE x3

TryGuard(x, env) ==
    IF ~CanGuard(x, env) THEN x
    ELSE Montage_Play(Broadcast(x, <<"Super::TryGuard">>), "BlockMontage")

GunZoomInCamera(x) ==
    Broadcast([x EXCEPT !.s.IsGunZooming = TRUE,
                        !.s.GunCameraZoomTimeline = "Forward"],
              <<"OnGunZoomIn">>)

GunZoomOutCamera(x) ==
    Broadcast([x EXCEPT !.s.IsGunZooming = FALSE,
                        !.s.GunCameraZoomTimeline = "Reverse"],
              <<"OnGunZoomOut">>)

\* TryGuardOrZoom zooming in without testing IsGunZooming
TryGuardOrZoom_NoTest(x, env) ==
    IF x.s.CurrentAnimationState = "Unarmed" THEN TryGuard(x, env)
    ELSE GunZoomInCamera([x EXCEPT !.s.GunCameraZoomTimeline = "Stopped"])

TryGuardOrZoom(x, env) ==
    IF x.s.CurrentAnimationState = "Unarmed" THEN TryGuard(x, env)
    ELSE IF ~x.s.IsGunZooming
         THEN GunZoomInCamera([x EXCEPT !.s.GunCameraZoomTimeline = "Stopped"])
         ELSE x

TryZoomOut(x) ==
    IF x.s.CurrentAnimationState = "Unarmed" THEN x
    ELSE IF x.s.IsGunZooming
         THEN GunZoomOutCamera([x EXCEPT !.s.GunCameraZoomTimeline = "Stopped"])
         ELSE x

AttackTraces == {NoHit, [IsHit |-> TRUE, Actor |-> "Enemy1"],
                 [IsHit |-> TRUE, Actor |-> "Crate"]}

\* the inputs of a TryAttack call in the state s: what the base-class
\* predicates return (env), the result of SearchEnemyInFront and the
\* montage picked at random.  An input the call does not get to consult in
\* s (the right operand of a && whose left operand is false, the trace
\* outside TryFistAttack, ...) is listed with one value only: absent,
\* NoHit, and the first montage.
AttackInput(env, trace, montage) ==
    [env |-> env, trace |-> trace, montage |-> montage]

\* TryFistAttack: the range and IsExecutable of an enemy in front, then
\* IsPlayingFistAttackMontage, then the random montage
FistAttackInputs(base) ==
    LET FirstMontage == CHOOSE m \in FistAttackMontages : TRUE
        RangeEnv(trace) ==
            IF CastEnemy(trace.Actor) # NULL
            THEN {{}, {"IsInAttackRange"}, {"IsInAttackRange", "IsExecutable"}}
            ELSE {{}}
    IN  UNION { UNION {
            IF r = {"IsInAttackRange", "IsExecutable"}
            THEN {AttackInput(base \cup r, trace, FirstMontage)}
            ELSE {AttackInput(base \cup r \cup {"IsPlayingFistAttackMontage"},
                              trace, FirstMontage)}
                 \cup {AttackInput(base \cup r, trace, m) : m \in FistAttackMontages}
            : r \in RangeEnv(trace) } : trace \in AttackTraces }

AttackInputs(s) ==
    LET FirstMontage == CHOOSE m \in FistAttackMontages : TRUE
        In(env) == AttackInput(env, NoHit, FirstMontage)
    IN  {In({})}
        \cup IF s.IsSprinting THEN {In({"Super::CanAttack"})}
             ELSE IF s.CurrentAnimationState = "Unarmed"
             THEN {In({"Super::CanAttack"})}
                  \cup IF s.IsCrouching
                       THEN {In({"Super::CanAttack", "Super::CanPunch"})}
                       ELSE FistAttackInputs({"Super::CanAttack", "Super::CanPunch"})
             ELSE {In({"Super::CanAttack"}),
                   In({"Super::CanAttack", "Super::CanFire"})}
                  \cup IF s.IsCrouching
                       THEN {In({"Super::CanAttack", "Super::CanFire", "IsMoving"})}
                       ELSE {}

DoTryAttack ==
    \E i \in AttackInputs(player) :
        Called("TryAttack",
               TryAttack(Ctx(player), i.env, i.trace, i.montage),
               "", i.env \cap {"IsPlayingFistAttackMontage"}, NoHit)

\* a notify of a montage that is playing or blending out; the Execute
\* notify is part of ExecutePunchAttackMontage
DoOnPlayMontageNotifyBegin ==
    \E NotifyName \in NotifyNames :
        /\ player.playing # NoMontage \/ player.endedPending # {}
        /\ NotifyName = "Execute" => player.playing = "ExecutePunchAttackMontage"
        /\ Called("OnPlayMontageNotifyBegin",
                  OnPlayMontageNotifyBegin(Ctx(player), NotifyName),
                  NotifyName, {}, NoHit)

\* the predicates TryGuardOrZoom can consult in the animation state of s
GuardEnv(s) ==
    IF s.CurrentAnimationState = "Unarmed"
    THEN SUBSET {"Super::CanGuard"} ELSE {{}}

DoTryGuardOrZoom ==
    \E env \in GuardEnv(player) :
        Called("TryGuardOrZoom", TryGuardOrZoom(Ctx(player), env), "", env, NoHit)

DoTryZoomOut ==
    Called("TryZoomOut", TryZoomOut(Ctx(player)), "", {}, NoHit)

\* ------------------------------------------------------------------------
\* Sprint and crouch handlers.  MaxWalkSpeed holds the name of the speed
\* assigned to it: WalkSpeed (the MaxWalkSpeed read at BeginPlay),
\* SprintSpeed or CrouchSpeed, three distinct configured values.
CanCrouch(x, env) == "CanMove" \in env /\ "IsJumping" \notin env

\* the line trace upwards hits something: IsSomethingAbovePlayer
CanUncrouch(x, env) ==
    "IsSomethingAbovePlayer" \notin env /\ "IsJumping" \notin env

CanSprint(x, env) ==
    "CanMove" \in env /\ ~x.s.IsCrouching /\ "IsJumping" \notin env

OnSprintStart(x, env) ==
    IF x.s.IsSprinting THEN x
    ELSE IF ~CanSprint(x, env) THEN x
    ELSE Broadcast([x EXCEPT !.s.IsSprinting = TRUE,
                             !.s.MaxWalkSpeed = "SprintSpeed"],
                   <<"WeaponSystemComponent->StartSprint">>)

OnSprintEnd(x) ==
    IF ~x.s.IsSprinting THEN x
    ELSE Broadcast([x EXCEPT !.s.IsSprinting = FALSE,
                             !.s.MaxWalkSpeed = "WalkSpeed"],
                   <<"WeaponSystemComponent->EndSprint">>)

TryCrouch(x, env) ==
    IF ~CanCrouch(x, env) THEN x
    ELSE IF x.s.IsCrouching
    THEN IF ~CanUncrouch(x, env) THEN x
         ELSE [Broadcast(x, <<"UnCrouch">>) EXCEPT
                   !.s.MaxWalkSpeed = "WalkSpeed",
                   !.s.IsCrouching = FALSE]
    ELSE [Broadcast(x, <<"Crouch">>) EXCEPT
              !.s.MaxWalkSpeed = "CrouchSpeed",
              !.s.IsCrouching = TRUE]

\* the predicates OnSprintStart can consult in the state s: none while
\* sprinting, and CanSprint stops at IsCrouching
SprintEnv(s) ==
    IF s.IsSprinting THEN {{}}
    ELSE IF s.IsCrouching THEN SUBSET {"CanMove"}
    ELSE SUBSET {"CanMove", "IsJumping"}

\* the predicates TryCrouch can consult in the state s: CanUncrouch is
\* reached only while crouching
CrouchEnv(s) ==
    IF s.IsCrouching
    THEN SUBSET {"CanMove", "IsJumping", "IsSomethingAbovePlayer"}
    ELSE SUBSET {"CanMove", "IsJumping"}

\* lastCall keeps the env of a call only for the handlers whose claims
\* read it; the sprint and crouch claims are about the state alone
DoOnSprintStart ==
    \E env \in SprintEnv(player) :
        Called("OnSprintStart", OnSprintStart(Ctx(player), env), "", {}, NoHit)

DoOnSprintEnd ==
    Called("OnSprintEnd", OnSprintEnd(Ctx(player)), "", {}, NoHit)

DoTryCrouch ==
    \E env \in CrouchEnv(player) :
        Called("TryCrouch", TryCrouch(Ctx(player), env), "", {}, NoHit)

NextMovement ==
    \/ DoMove
    \/ DoOnSprintStart
    \/ DoOnSprintEnd
    \/ DoTryCrouch

SpecMovement == Init0 /\ [][NextMovement]_vars

\* the attack, guard and zoom handlers together with every handler that
\* writes a field they read
NextCombat ==
    \/ DoSetAnimationState
    \/ DoTryAttack
    \/ DoOnPlayMontageNotifyBegin
    \/ DoOnMontageEnded
    \/ DoTryGuardOrZoom
    \/ DoTryZoomOut
    \/ DoTick
    \/ DoTryDodgeRoll
    \/ DoOnSprintStart
    \/ DoOnSprintEnd
    \/ DoTryCrouch

SpecCombat == Init0 /\ [][NextCombat]_vars

\* ------------------------------------------------------------------------
\* UTransporter.  Transporter.h declares the component; its member functions
\* are modelled from the specification: the component moves its owner
\* between StartPoint and EndPoint, at the constant speed that covers their
\* distance in MoveTime, towards EndPoint while IsTriggered and back towards
\* StartPoint otherwise.  Locations are points of one axis.
Points == {2 * i : i \in 0 .. MaxPoint}
MoveTimes == {1, 2}
DeltaTimes == {1, 2}

Abs(v) == IF v < 0 THEN 0 - v ELSE v

\* FMath::VInterpConstantTo
VInterpConstantTo(Current, Target, DeltaTime, InterpSpeed) ==
    LET Delta == Target - Current
        MaxStep == InterpSpeed * DeltaTime
    IN  IF Abs(Delta) > MaxStep
        THEN IF MaxStep > 0
             THEN Current + (IF Delta > 0 THEN MaxStep ELSE 0 - MaxStep)
             ELSE Current
        ELSE Target

SetPoints(t, ToSetStartPoint, ToSetEndPoint) ==
    [t EXCEPT !.StartPoint = ToSetStartPoint,
              !.EndPoint = ToSetEndPoint,
              !.ArePointsSet = TRUE,
              !.Speed = Abs(ToSetEndPoint - ToSetStartPoint) \div t.MoveTime]

OnButtonActivated(t) == [t EXCEPT !.IsTriggered = TRUE]

OnButtonDeactivated(t) == [t EXCEPT !.IsTriggered = FALSE]

\* TickComponent moving the owner whether or not the points are set
TickComponent_NoPointsTest(t, DeltaTime) ==
    LET Target == IF t.IsTriggered THEN t.EndPoint ELSE t.StartPoint
    IN  [t EXCEPT !.OwnerLocation =
            VInterpConstantTo(t.OwnerLocation, Target, DeltaTime,
                              IF t.ArePointsSet THEN t.Speed ELSE 1)]

TickComponent(t, DeltaTime) ==
    IF ~t.ArePointsSet THEN t
    ELSE LET Target == IF t.IsTriggered THEN t.EndPoint ELSE t.StartPoint
         IN  IF t.OwnerLocation # Target
             THEN [t EXCEPT !.OwnerLocation =
                     VInterpConstantTo(t.OwnerLocation, Target, DeltaTime, t.Speed)]
             ELSE t

TransporterCalled(op, t) ==
    /\ transporter' = t
    /\ lastCall' = [NoCall EXCEPT !.op = op]
    /\ UNCHANGED <<InventoryData, CurrentSlotItem, MaxHp, player, observed>>

\* the level sets the two points once
DoSetPoints ==
    \E ToSetStartPoint \in Points, ToSetEndPoint \in Points :
        /\ ~transporter.ArePointsSet
        /\ ToSetStartPoint # ToSetEndPoint
        /\ TransporterCalled("SetPoints",
               SetPoints(transporter, ToSetStartPoint, ToSetEndPoint))

DoOnButtonActivated ==
    TransporterCalled("OnButtonActivated", OnButtonActivated(transporter))

DoOnButtonDeactivated ==
    TransporterCalled("OnButtonDeactivated", OnButtonDeactivated(transporter))

DoTickComponent ==
    \E DeltaTime \in DeltaTimes :
        TransporterCalled("TickComponent", TickComponent(transporter, DeltaTime))

InitT ==
    /\ InventoryData = [x \in {} |-> 0]
    /\ CurrentSlotItem = NULL
    /\ MaxHp = 100
    /\ player = InitPlayer
    /\ lastCall = NoCall
    /\ observed = NoneObserved
    /\ \E Location \in Points, ConfiguredMoveTime \in MoveTimes :
          transporter = InitTransporter(Location, ConfiguredMoveTime)

NextTransporter ==
    \/ DoSetPoints
    \/ DoOnButtonActivated
    \/ DoOnButtonDeactivated
    \/ DoTickComponent

\* the engine ticks the component every frame
SpecTransporter ==
    InitT /\ [][NextTransporter]_vars /\ WF_vars(DoTickComponent)

\* ------------------------------------------------------------------------
\* Inventory claims.  A step of an inventory handler is recognised by the
\* call it leaves in lastCall'; the unprimed InventoryData is the dictionary
\* before the call.
InventoryOps == {"AddInventoryItem", "RemoveInventoryItem", "UseItem", "UseSlotItem"}

OthersUnchanged(Item) ==
    \A x \in Items \ {Item} :
        /\ HasItem(InventoryData', x) = HasItem(InventoryData, x)
        /\ GetInventoryItemCount(InventoryData', x) = GetInventoryItemCount(InventoryData, x)

\* C1: removing k >= 1 of an item held c >= 1 times (RemoveInventoryItem, or
\* the removal of one that UseItem performs) returns true and leaves c - k
\* when k < c, removes the entry when k >= c, for every MaxCount of the
\* item, and changes no other item.
C1_RemoveCountsDown ==
    [][ \A Item \in Items :
          ( /\ lastCall'.op \in {"RemoveInventoryItem", "UseItem", "UseSlotItem"}
            /\ lastCall'.item = Item
            /\ GetInventoryItemCount(InventoryData, Item) >= 1
            /\ lastCall'.n >= 1 )
          => LET c == GetInventoryItemCount(InventoryData, Item)
                 k == lastCall'.n
             IN  /\ lastCall'.ret
                 /\ (k < c => /\ HasItem(InventoryData', Item)
                              /\ InventoryData'[Item] = c - k)
                 /\ (k >= c => ~HasItem(InventoryData', Item))
                 /\ OthersUnchanged(Item)
      ]_vars

\* C2: every entry of the dictionary has a count >= 1 and a non-null key, so
\* GetInventoryItemCount(Item) > 0 exactly when HasItem(Item).
C2_EntriesPositive ==
    /\ \A x \in DOMAIN InventoryData : x # NULL /\ InventoryData[x] >= 1
    /\ \A Item \in ItemRefs :
          (GetInventoryItemCount(InventoryData, Item) > 0) <=> HasItem(InventoryData, Item)

\* an entry that survived a removal
C2_Witness ==
    /\ lastCall.op = "RemoveInventoryItem"
    /\ lastCall.ret
    /\ lastCall.n >= 1
    /\ HasItem(InventoryData, lastCall.item)
    /\ \E x \in Items \ {lastCall.item} : HasItem(InventoryData, x)

\* C3: UseItem (and UseSlotItem on the slot item) returns true exactly when
\* the count was >= 1 before the call; then it heals once, by half of MaxHp,
\* and broadcasts OnPlayerUseItem once; otherwise it heals nothing,
\* broadcasts nothing and leaves the inventory unchanged.
C3_UseItemResult ==
    [][ lastCall'.op \in {"UseItem", "UseSlotItem"}
        => LET before == GetInventoryItemCount(InventoryData, lastCall'.item)
           IN  /\ lastCall'.ret <=> (before >= 1)
               /\ lastCall'.ret =>
                      /\ Len(lastCall'.heals) = 1
                      /\ 2 * lastCall'.heals[1] = MaxHp
                      /\ lastCall'.events = << <<"OnPlayerUseItem">> >>
               /\ ~lastCall'.ret =>
                      /\ lastCall'.heals = <<>>
                      /\ lastCall'.events = <<>>
                      /\ InventoryData' = InventoryData
      ]_vars

C3_Witness ==
    /\ lastCall.op = "UseItem"
    /\ lastCall.ret
    /\ lastCall.prev >= 1
    /\ lastCall.heals = << MaxHp \div 2 >>
    /\ lastCall.events = << <<"OnPlayerUseItem">> >>

\* C9: an inventory operation that returns false leaves the dictionary
\* unchanged and broadcasts nothing; AddInventoryItem with a null item or
\* ItemCount <= 0, RemoveInventoryItem with a null or not-held item, and
\* UseItem with a not-held item do return false.
C9_FailureChangesNothing ==
    [][ lastCall'.op \in InventoryOps
        => /\ ~lastCall'.ret =>
                  /\ InventoryData' = InventoryData
                  /\ lastCall'.events = <<>>
                  /\ lastCall'.heals = <<>>
           /\ ( /\ lastCall'.op = "AddInventoryItem"
                /\ (lastCall'.item = NULL \/ lastCall'.n <= 0) ) => ~lastCall'.ret
           /\ ( /\ lastCall'.op \in {"RemoveInventoryItem", "UseItem", "UseSlotItem"}
                /\ ~HasItem(InventoryData, lastCall'.item) ) => ~lastCall'.ret
      ]_vars

\* a rejected AddInventoryItem(Item, n <= 0) on a non-empty inventory
C9_Witness ==
    /\ lastCall.op = "AddInventoryItem"
    /\ ~lastCall.ret
    /\ lastCall.item # NULL
    /\ lastCall.n <= 0
    /\ DOMAIN InventoryData # {}

\* C10: a successful AddInventoryItem(Item, n), n >= 1, never lowers the
\* count of Item: previous <= new <= previous + n, with new = previous + n
\* whenever previous + n does not exceed MaxCount (MaxCount <= 0: no cap),
\* and the other items keep their counts.  Stated for the calls whose sum
\* previous + n is representable in int32, where C++ defines the result.
C10_AddNeverLowers ==
    [][ \A Item \in Items :
          ( /\ lastCall'.op = "AddInventoryItem"
            /\ lastCall'.item = Item
            /\ lastCall'.ret
            /\ lastCall'.n >= 1
            /\ GetInventoryItemCount(InventoryData, Item) <= MAX_int32 - lastCall'.n )
          => LET prev == GetInventoryItemCount(InventoryData, Item)
                 new  == GetInventoryItemCount(InventoryData', Item)
                 n    == lastCall'.n
                 cap  == IF ItemMaxCount[Item] <= 0 THEN MAX_int32
                         ELSE ItemMaxCount[Item]
             IN  /\ new >= prev
                 /\ new - prev <= n
                 /\ (prev <= cap - n => new - prev = n)
                 /\ OthersUnchanged(Item)
      ]_vars

\* ------------------------------------------------------------------------
\* Target-lock and dodge claims (SpecLockDodge).  player is the character
\* before the call, player' after it, lastCall' the call.

\* C4: TryDodgeRoll plays no montage when CanDodgeRoll() is false or the
\* character is already dodging; otherwise it plays exactly one dodge
\* montage: Forward when not target-locking and Unarmed, whatever the
\* movement vector; else Right when X > 0, Left when X < 0, Backward when
\* X = 0 and Y < 0, Forward in the remaining case.
C4_DodgeDirection ==
    [][ lastCall'.op = "TryDodgeRoll"
        => LET v == player.CurrentMovementVector
               free == ~player.IsTargetLocking
                          /\ player.CurrentAnimationState = "Unarmed"
               refused == "CanDodgeRoll" \notin lastCall'.env
                             \/ "IsDodging" \in lastCall'.env
           IN  /\ refused => lastCall'.played = <<>>
               /\ ~refused =>
                    /\ Len(lastCall'.played) = 1
                    /\ lastCall'.played[1] \in DodgeMontages
                    /\ free => lastCall'.played[1] = "DodgeRollForwardMontage"
                    /\ (~free /\ v.X > 0) => lastCall'.played[1] = "DodgeRollRightMontage"
                    /\ (~free /\ v.X < 0) => lastCall'.played[1] = "DodgeRollLeftMontage"
                    /\ (~free /\ v.X = 0 /\ v.Y < 0)
                          => lastCall'.played[1] = "DodgeRollBackwardMontage"
                    /\ (~free /\ v.X = 0 /\ v.Y >= 0)
                          => lastCall'.played[1] = "DodgeRollForwardMontage"
      ]_vars

\* a sideways roll chosen although the stick also points backward
C4_Witness ==
    /\ lastCall.op = "TryDodgeRoll"
    /\ lastCall.played = << "DodgeRollRightMontage" >>
    /\ player.CurrentMovementVector.X > 0
    /\ player.CurrentMovementVector.Y < 0
    /\ player.IsTargetLocking

\* C5: while Unarmed, TryTargetLock on an unlocked character locks exactly
\* when the trace hits an AEnemyCharacter, whose target widget it then
\* shows; on a locked character it unlocks and hides the widget of the
\* locked enemy; when the character is not Unarmed it changes nothing.
C5_TargetLockToggle ==
    [][ lastCall'.op = "TryTargetLock"
        => LET t == lastCall'.trace
               unarmed == player.CurrentAnimationState = "Unarmed"
           IN  /\ (unarmed /\ ~player.IsTargetLocking) =>
                    /\ player'.IsTargetLocking <=> (t.IsHit /\ t.Actor \in Enemies)
                    /\ player'.IsTargetLocking =>
                          /\ player'.LockTargetEnemy = t.Actor
                          /\ player'.TargetWidgetVisible[t.Actor]
               /\ (unarmed /\ player.IsTargetLocking) =>
                    /\ ~player'.IsTargetLocking
                    /\ ~player'.TargetWidgetVisible[player.LockTargetEnemy]
               /\ ~unarmed =>
                    /\ player' = player
                    /\ lastCall'.played = <<>> /\ lastCall'.events = <<>>
      ]_vars

\* a lock taken on the enemy the trace hit
C5_Witness ==
    /\ lastCall.op = "TryTargetLock"
    /\ lastCall.trace.IsHit
    /\ player.IsTargetLocking
    /\ player.LockTargetEnemy = lastCall.trace.Actor
    /\ player.TargetWidgetVisible[player.LockTargetEnemy]

\* ------------------------------------------------------------------------
\* Combo-attack and camera-zoom claims (SpecCombat).

\* C6: an attack input is buffered only by TryFistAttack (reached through
\* TryAttack) while a fist-attack montage is playing, as told by
\* IsPlayingFistAttackMontage(); a ComboContinue notify
\* stops the montage exactly when no input is buffered at that moment and
\* leaves the buffer false; so no more than one ComboContinue notify goes by
\* without a stop on one buffered input.
C6_ComboBuffer ==
    [][ /\ (lastCall'.buffered
              \/ (~player.IsMeleeAttackInputReceived
                    /\ player'.IsMeleeAttackInputReceived))
           => /\ lastCall'.op = "TryAttack"
              /\ lastCall'.buffered
              /\ "IsPlayingFistAttackMontage" \in lastCall'.env
              /\ player.CurrentAnimationState = "Unarmed"
              /\ player'.IsMeleeAttackInputReceived
              /\ lastCall'.played = <<>>
        /\ (lastCall'.op = "OnPlayMontageNotifyBegin" /\ lastCall'.arg = "ComboContinue")
           => /\ lastCall'.stopped <=> ~player.IsMeleeAttackInputReceived
              /\ lastCall'.stopped => player'.playing = NoMontage
              /\ ~lastCall'.stopped => player'.playing = player.playing
              /\ ~player'.IsMeleeAttackInputReceived
        /\ observed'.ComboPassed <= 1
      ]_vars

\* a ComboContinue notify that a buffered input carried the combo past
C6_Witness ==
    /\ lastCall.op = "OnPlayMontageNotifyBegin"
    /\ lastCall.arg = "ComboContinue"
    /\ ~lastCall.stopped
    /\ observed.ComboPassed = 1
    /\ player.playing \in FistAttackMontages
    /\ ~player.IsMeleeAttackInputReceived

\* C7: over TryGuardOrZoom (press) and TryZoomOut (release) inputs the
\* OnGunZoomIn and OnGunZoomOut broadcasts strictly alternate, starting with
\* OnGunZoomIn; IsGunZooming is true exactly between an OnGunZoomIn and the
\* next OnGunZoomOut; neither input zooms while the character is Unarmed,
\* where a press attempts a guard instead.
C7_ZoomAlternates ==
    [][ LET zoom == ZoomBroadcasts(lastCall'.events)
            unarmed == player.CurrentAnimationState = "Unarmed"
        IN  /\ Len(zoom) <= 1
            /\ zoom = << <<"OnGunZoomIn">> >>
                   => observed.LastZoomBroadcast \in {"None", "OnGunZoomOut"}
            /\ zoom = << <<"OnGunZoomOut">> >>
                   => observed.LastZoomBroadcast = "OnGunZoomIn"
            /\ player.IsGunZooming <=> (observed.LastZoomBroadcast = "OnGunZoomIn")
            /\ player'.IsGunZooming <=> (observed'.LastZoomBroadcast = "OnGunZoomIn")
            /\ (unarmed /\ lastCall'.op \in {"TryGuardOrZoom", "TryZoomOut"})
                   => /\ zoom = <<>>
                      /\ player'.IsGunZooming = player.IsGunZooming
            /\ (unarmed /\ lastCall'.op = "TryGuardOrZoom")
                   => lastCall'.played =
                         IF "Super::CanGuard" \in lastCall'.env /\ ~player.IsCrouching
                         THEN << "BlockMontage" >> ELSE <<>>
            /\ (~unarmed /\ lastCall'.op = "TryGuardOrZoom")
                   => /\ player'.IsGunZooming
                      /\ lastCall'.played = <<>>
            /\ (~unarmed /\ lastCall'.op = "TryZoomOut") => ~player'.IsGunZooming
      ]_vars

\* a zoom-out on release, after the zoom-in of the press
C7_Witness ==
    /\ lastCall.op = "TryZoomOut"
    /\ lastCall.events = << <<"OnGunZoomOut">> >>
    /\ observed.LastZoomBroadcast = "OnGunZoomOut"
    /\ ~player.IsGunZooming
    /\ player.GunCameraZoomTimeline = "Reverse"

\* ------------------------------------------------------------------------
\* Transporter claim (SpecTransporter).

\* C8: once the points are set, while IsTriggered the owner advances towards
\* EndPoint and eventually reaches it, while not IsTriggered it returns
\* towards StartPoint and eventually reaches it, at a speed that covers the
\* distance of the two points in MoveTime; the owner is never moved before
\* SetPoints has been called.
C8_TransporterMoves ==
    /\ [][ LET t == transporter
               Target == IF t.IsTriggered THEN t.EndPoint ELSE t.StartPoint
           IN  /\ ~t.ArePointsSet => transporter'.OwnerLocation = t.OwnerLocation
               /\ lastCall'.op # "TickComponent"
                     => transporter'.OwnerLocation = t.OwnerLocation
               /\ (lastCall'.op = "TickComponent" /\ t.ArePointsSet) =>
                     /\ t.OwnerLocation # Target =>
                           Abs(Target - transporter'.OwnerLocation)
                              < Abs(Target - t.OwnerLocation)
                     /\ t.OwnerLocation = Target => transporter'.OwnerLocation = Target
                     /\ \E DeltaTime \in DeltaTimes :
                           Abs(transporter'.OwnerLocation - t.OwnerLocation) * t.MoveTime
                              <= Abs(t.EndPoint - t.StartPoint) * DeltaTime
         ]_vars
    /\ (transporter.ArePointsSet /\ transporter.IsTriggered)
          ~> (transporter.OwnerLocation = transporter.EndPoint
                \/ ~transporter.IsTriggered)
    /\ (transporter.ArePointsSet /\ ~transporter.IsTriggered)
          ~> (transporter.OwnerLocation = transporter.StartPoint
                \/ transporter.IsTriggered)

\* the owner, carried from StartPoint, stands at EndPoint
C8_Witness ==
    /\ lastCall.op = "TickComponent"
    /\ transporter.ArePointsSet
    /\ transporter.IsTriggered
    /\ transporter.OwnerLocation = transporter.EndPoint
    /\ transporter.EndPoint # transporter.StartPoint

\* ------------------------------------------------------------------------
\* Further inventory claims (Spec).

\* C11: RemoveInventoryItem(Item, RemoveCount) with RemoveCount <= 0 on a
\* held item returns true and deletes all of it: afterwards HasItem(Item) is
\* false and GetInventoryItemCount(Item) is 0, whatever the count was.
C11_RemoveAll ==
    [][ ( /\ lastCall'.op = "RemoveInventoryItem"
          /\ lastCall'.n <= 0
          /\ HasItem(InventoryData, lastCall'.item) )
        => /\ lastCall'.ret
           /\ ~HasItem(InventoryData', lastCall'.item)
           /\ GetInventoryItemCount(InventoryData', lastCall'.item) = 0
      ]_vars

\* several of an item deleted by RemoveInventoryItem(Item, 0)
C11_Witness ==
    /\ lastCall.op = "RemoveInventoryItem"
    /\ lastCall.n = 0
    /\ lastCall.prev >= 2
    /\ lastCall.ret
    /\ ~HasItem(InventoryData, lastCall.item)

\* C12: AddInventoryItem broadcasts OnPlayerAddItem(Item) exactly once when
\* the item goes from not held to held, and never when it only raises the
\* count of a held item or when the call fails.
C12_AddBroadcast ==
    [][ lastCall'.op = "AddInventoryItem"
        => LET Item == lastCall'.item
               becomesHeld == ~HasItem(InventoryData, Item)
                                 /\ HasItem(InventoryData', Item)
           IN  /\ becomesHeld =>
                     lastCall'.events = << <<"OnPlayerAddItem", Item>> >>
               /\ ~becomesHeld => lastCall'.events = <<>>
               /\ ~lastCall'.ret => lastCall'.events = <<>>
      ]_vars

\* an add that raised the count of a held item, without a broadcast
C12_Witness ==
    /\ lastCall.op = "AddInventoryItem"
    /\ lastCall.ret
    /\ lastCall.prev >= 1
    /\ GetInventoryItemCount(InventoryData, lastCall.item) > lastCall.prev
    /\ lastCall.events = <<>>

\* C13: the count stored for an item whose MaxCount is > 0 never exceeds
\* that MaxCount, also right after the item's first AddInventoryItem.
C13_CapInvariant ==
    \A Item \in DOMAIN InventoryData :
        (Item \in Items /\ ItemMaxCount[Item] > 0)
            => InventoryData[Item] <= ItemMaxCount[Item]

\* ------------------------------------------------------------------------
\* Sprint and crouch claims (SpecMovement).

\* C14: through any interleaving of OnSprintStart, OnSprintEnd and TryCrouch
\* inputs, IsSprinting and IsCrouching are never both true.
C14_SprintCrouchExclusive ==
    ~(player.IsSprinting /\ player.IsCrouching)

\* C15: after BeginPlay MaxWalkSpeed equals CrouchSpeed whenever IsCrouching,
\* SprintSpeed whenever IsSprinting, and WalkSpeed when neither flag is set.
C15_SpeedMatchesState ==
    /\ player.IsCrouching => player.MaxWalkSpeed = "CrouchSpeed"
    /\ player.IsSprinting => player.MaxWalkSpeed = "SprintSpeed"
    /\ (~player.IsCrouching /\ ~player.IsSprinting)
          => player.MaxWalkSpeed = "WalkSpeed"

====
